---- MODULE Spec2Model ----
(***************************************************************************)
(* Model of the NeuTTS German OpenAI-compatible gateway:                   *)
(*   tts_service.py  TTSService (engine guard, voice cache, synthesis)     *)
(*   server.py       the FastAPI handlers around the global tts_service    *)
(*                                                                         *)
(* Spec         the service as a library: every TTSService method runs to  *)
(*              completion.                                                *)
(* SpecRegistry the registry alone, over every shape of voice file.        *)
(* SpecSamples  the built-in load alone, over .wav/.txt/.pt combinations.  *)
(* SpecServer   the handlers (`async def` without an await, so the event   *)
(*              loop serialises them).                                     *)
(* SpecWav      the WAV encoder alone.                                     *)
(* SpecThreads  initialize_tts() entered by several threads at once, one   *)
(*              source statement per step.                                 *)
(* SpecReloads  reload_custom_voices() and lookups entered by several      *)
(*              threads of a service that is up.                           *)
(***************************************************************************)
EXTENDS Integers, Sequences, FiniteSets, TLC

VARIABLES
    tts,          \* self.tts: 0 is None, n > 0 is the n-th NeuTTS instance
    voice_cache,  \* self.voice_cache: voice id -> entry
    inserted,     \* path -> number of entries inserted from it so far
    engines,      \* number of NeuTTS instances constructed so far
    loads,        \* number of _load_builtin_samples passes started so far
    samples,      \* files under SAMPLES_DIR, per built-in name
    voices,       \* files under VOICES_DIR, per filename stem
    voicesDir,    \* os.path.exists(VOICES_DIR)
    hasStream,    \* the installed NeuTTS class has an infer_stream attribute
    resp,         \* what the last call returned or raised; Idle once the files
                  \* are no longer the ones that call saw
    pc,           \* per thread: the statement of initialize_tts it is at
    frame         \* per thread: the locals of the call it is in

vars == <<tts, voice_cache, inserted, engines, loads, samples, voices, voicesDir,
          hasStream, resp, pc, frame>>

(***************************************************************************)
(* Bounds                                                                  *)
(***************************************************************************)
MaxSamples == 2     \* longest audio buffer NeuTTS.infer returns
MaxChunks == 2      \* most chunks one infer_stream run produces
MaxThreads == 2     \* threads inside initialize_tts at once

(***************************************************************************)
(* Program constants                                                       *)
(***************************************************************************)
BuiltinVoices == <<"greta", "mateo", "juliette">>

Builtins == {BuiltinVoices[i] : i \in 1..Len(BuiltinVoices)}

\* filename stems that may show up in the custom directory: one that collides
\* with a built-in, one that collides with an alias, one that collides with
\* nothing
CustomStems == {"greta", "coral", "anna"}

VoiceIds == Builtins \cup CustomStems

SampleRate == 24000

(***************************************************************************)
(* Files                                                                   *)
(***************************************************************************)
NoFile == [wav |-> "none", txt |-> "none", pt |-> "none"]

\* <stem>.wav alone; with a transcript; unreadable audio; a transcript that is
\* not UTF-8; a serialized encoding beside the audio
WavOnly == [wav |-> "ok", txt |-> "none", pt |-> "none"]

WavTxt == [wav |-> "ok", txt |-> "text", pt |-> "none"]

Corrupt == [wav |-> "corrupt", txt |-> "none", pt |-> "none"]

BadTxt == [wav |-> "ok", txt |-> "undecodable", pt |-> "none"]

WavPt == [wav |-> "ok", txt |-> "none", pt |-> "ok"]

WavTxtPt == [wav |-> "ok", txt |-> "text", pt |-> "ok"]

SamplePath(voice_id) == <<"samples", voice_id>>

VoicePath(stem) == <<"voices", stem>>

Paths == {SamplePath(v) : v \in Builtins} \cup {VoicePath(s) : s \in CustomStems}

(***************************************************************************)
(* Values                                                                  *)
(***************************************************************************)
None == [kind |-> "None", path |-> <<>>, n |-> 0]

\* the tensor encode_reference returned for the n-th insertion from path
EncodedCodes(path, n) == [kind |-> "inserted", path |-> path, n |-> n]

\* the tensor torch.load read from <name>.pt
LoadedCodes(path) == [kind |-> "loaded", path |-> path, n |-> 0]

\* f.read().strip() of the transcript next to path; <<>> is ""
Transcript(path) == path

BuiltinName(voice_id) == <<"German", voice_id, "(built-in)">>

CustomName(voice_id) == <<"Custom voice:", voice_id, "">>

Put(cache, voice_id, entry) ==
    [v \in DOMAIN cache \cup {voice_id} |-> IF v = voice_id THEN entry ELSE cache[v]]

Bump(enc, path) == [enc EXCEPT ![path] = @ + 1]

(***************************************************************************)
(* TTSService._load_builtin_samples                                        *)
(***************************************************************************)
\* one iteration of the loop over builtin_voices; st is [cache, enc]
LoadBuiltinOne(engine, files, st, voice_id) ==
    LET f == files[voice_id]
        path == SamplePath(voice_id)
        enc2 == Bump(st.enc, path)
        ref_text == IF f.txt = "text" THEN Transcript(path) ELSE <<>>
        ref_codes == IF f.txt = "none" /\ f.pt = "ok"
                     THEN LoadedCodes(path)
                     ELSE EncodedCodes(path, enc2[path])
    IN  \* no <name>.wav: the voice is passed over
        IF f.wav = "none" THEN st
        \* encode_reference raises (on None: AttributeError), or reading the
        \* transcript does: `except Exception` swallows it
        ELSE IF engine = 0 \/ f.wav = "corrupt" \/ f.txt = "undecodable" THEN st
        ELSE [cache |-> Put(st.cache, voice_id,
                            [ref_codes |-> ref_codes,
                             ref_text |-> ref_text,
                             wav_path |-> path,
                             is_builtin |-> TRUE,
                             name |-> BuiltinName(voice_id)]),
              enc |-> enc2]

RECURSIVE LoadBuiltinFrom(_, _, _, _)
LoadBuiltinFrom(engine, files, st, i) ==
    IF i > Len(BuiltinVoices) THEN st
    ELSE LoadBuiltinFrom(engine, files,
                         LoadBuiltinOne(engine, files, st, BuiltinVoices[i]), i + 1)

LoadBuiltinSamples(engine, files, st) == LoadBuiltinFrom(engine, files, st, 1)

(***************************************************************************)
(* TTSService._scan_custom_voices                                          *)
(***************************************************************************)
\* the skip taken only for ids that an earlier scan loaded
LoadedByScan(cache, voice_id) ==
    voice_id \in DOMAIN cache /\ ~cache[voice_id].is_builtin

\* `if voice_id in self.voice_cache: continue`
AlreadyLoaded(cache, voice_id) == voice_id \in DOMAIN cache

\* the try block of one iteration of the loop over wav_files
ScanLoad(engine, files, st, stem) ==
    LET f == files[stem]
        path == VoicePath(stem)
        enc2 == Bump(st.enc, path)
        ref_text == IF f.txt = "text" THEN Transcript(path) ELSE <<>>
    IN  \* encode_reference raises (the file is gone or unreadable, or the
        \* engine is None), or reading the transcript does: `except Exception`
        \* swallows it
        IF engine = 0 \/ f.wav # "ok" \/ f.txt = "undecodable" THEN st
        ELSE [cache |-> Put(st.cache, stem,
                            [ref_codes |-> EncodedCodes(path, enc2[path]),
                             ref_text |-> ref_text,
                             wav_path |-> path,
                             is_builtin |-> FALSE,
                             name |-> CustomName(stem)]),
              enc |-> enc2]

\* an iteration without the skip
ScanOneAgain(engine, files, st, stem) == ScanLoad(engine, files, st, stem)

\* one iteration of the loop over wav_files
ScanOne(engine, files, st, stem) ==
    IF AlreadyLoaded(st.cache, stem) THEN st
    ELSE ScanLoad(engine, files, st, stem)

\* the stems of glob.glob(os.path.join(VOICES_DIR, "*.wav"))
WavFiles(files) == {s \in CustomStems : files[s].wav # "none"}

\* the orders in which glob may list them
GlobOrders(files) ==
    LET S == WavFiles(files)
    IN  {o \in [1..Cardinality(S) -> S] : \A i, j \in DOMAIN o : i # j => o[i] # o[j]}

\* the loop left at the first file that fails to load
RECURSIVE ScanFilesUntilFailure(_, _, _, _, _)
ScanFilesUntilFailure(engine, files, st, order, i) ==
    IF i > Len(order) THEN st
    ELSE IF ~AlreadyLoaded(st.cache, order[i])
            /\ ScanLoad(engine, files, st, order[i]) = st
    THEN st
    ELSE ScanFilesUntilFailure(engine, files, ScanOne(engine, files, st, order[i]),
                               order, i + 1)

RECURSIVE ScanFiles(_, _, _, _, _)
ScanFiles(engine, files, st, order, i) ==
    IF i > Len(order) THEN st
    ELSE ScanFiles(engine, files, ScanOne(engine, files, st, order[i]), order, i + 1)

\* env is [dir, files, order]: whether VOICES_DIR exists, what it holds, and
\* the order glob lists it in
ScanCustomVoices(engine, env, st) ==
    IF ~env.dir THEN st
    ELSE ScanFiles(engine, env.files, st, env.order, 1)

(***************************************************************************)
(* TTSService.reload_custom_voices, get_available_voices, get_voice_data   *)
(***************************************************************************)
\* `return list(self.voice_cache.keys())`, as a set
Reloaded(st) == [st |-> st, ids |-> DOMAIN st.cache]

\* a reload that forgets the custom entries and scans afresh
ReloadFromScratch(engine, env, st) ==
    Reloaded(ScanCustomVoices(engine, env,
        [st EXCEPT !.cache = [v \in {w \in DOMAIN st.cache : st.cache[w].is_builtin}
                                 |-> st.cache[v]]]))

ReloadCustomVoices(engine, env, st) == Reloaded(ScanCustomVoices(engine, env, st))

GetAvailableVoices(cache) ==
    [v \in DOMAIN cache |-> [name |-> cache[v].name,
                             is_builtin |-> cache[v].is_builtin,
                             has_ref_text |-> cache[v].ref_text # <<>>]]

\* the ref_text half of `return None, None`
NoText == <<"None">>

\* the second `if voice_id not in self.voice_cache` and the return
VoiceData(st, reloads, voice_id) ==
    IF voice_id \notin DOMAIN st.cache
    THEN [st |-> st, reloads |-> reloads, ref_codes |-> None, ref_text |-> NoText]
    ELSE [st |-> st, reloads |-> reloads,
          ref_codes |-> st.cache[voice_id].ref_codes,
          ref_text |-> st.cache[voice_id].ref_text]

\* get_voice_data without its reload on a miss
GetVoiceDataNoReload(engine, env, st, voice_id) == VoiceData(st, 0, voice_id)

GetVoiceData(engine, env, st, voice_id) ==
    IF voice_id \notin DOMAIN st.cache
    THEN VoiceData(ReloadCustomVoices(engine, env, st).st, 1, voice_id)
    ELSE VoiceData(st, 0, voice_id)

(***************************************************************************)
(* TTSService._create_wav_header, _numpy_to_wav                            *)
(***************************************************************************)
\* struct.pack('<I', n) and struct.pack('<H', n)
PackI(n) == <<n % 256, (n \div 256) % 256, (n \div 65536) % 256, (n \div 16777216) % 256>>

PackH(n) == <<n % 256, (n \div 256) % 256>>

\* struct.unpack('<I', ...) and struct.unpack('<H', ...) of the bytes from at
UnpackI(b, at) == b[at] + 256 * b[at + 1] + 65536 * b[at + 2] + 16777216 * b[at + 3]

UnpackH(b, at) == b[at] + 256 * b[at + 1]

\* a header whose RIFF field counts the whole file
CreateWavHeaderWholeFile(sample_rate, num_channels, bits_per_sample, data_size) ==
    <<82, 73, 70, 70>> \o PackI(44 + data_size)
    \o <<87, 65, 86, 69>> \o <<102, 109, 116, 32>>
    \o PackI(16) \o PackH(1) \o PackH(num_channels) \o PackI(sample_rate)
    \o PackI((sample_rate * num_channels * bits_per_sample) \div 8)
    \o PackH((num_channels * bits_per_sample) \div 8)
    \o PackH(bits_per_sample)
    \o <<100, 97, 116, 97>> \o PackI(data_size)

CreateWavHeader(sample_rate, num_channels, bits_per_sample, data_size) ==
    <<82, 73, 70, 70>> \o PackI(36 + data_size)
    \o <<87, 65, 86, 69>> \o <<102, 109, 116, 32>>
    \o PackI(16) \o PackH(1) \o PackH(num_channels) \o PackI(sample_rate)
    \o PackI((sample_rate * num_channels * bits_per_sample) \div 8)
    \o PackH((num_channels * bits_per_sample) \div 8)
    \o PackH(bits_per_sample)
    \o <<100, 97, 116, 97>> \o PackI(data_size)

\* (x * 32767).astype(np.int16) for x = q/4: the cast drops the fraction
\* (towards zero) and keeps the low 16 bits
ToInt16(q) ==
    LET x == q * 32767
        t == IF x >= 0 THEN x \div 4 ELSE -((-x) \div 4)
    IN  ((t + 32768) % 65536) - 32768

\* int16 little-endian, two's complement
Int16Bytes(v) == PackH((v + 65536) % 65536)

RECURSIVE ToBytes(_)
ToBytes(audio) ==
    IF audio = <<>> THEN <<>>
    ELSE Int16Bytes(ToInt16(Head(audio))) \o ToBytes(Tail(audio))

NumpyToWavAt(audio, sample_rate) ==
    LET audio_bytes == ToBytes(audio)
        data_size == Len(audio_bytes)
    IN  CreateWavHeader(sample_rate, 1, 16, data_size) \o audio_bytes

\* _numpy_to_wav(wav), with the default sample_rate
NumpyToWav(audio) == NumpyToWavAt(audio, SampleRate)

\* the fields of a canonical 44-byte RIFF/WAVE header, read back
ParseWavHeader(wav) ==
    [riff |-> SubSeq(wav, 1, 4), riff_size |-> UnpackI(wav, 5),
     wave |-> SubSeq(wav, 9, 12), fmt |-> SubSeq(wav, 13, 16),
     fmt_size |-> UnpackI(wav, 17), audio_format |-> UnpackH(wav, 21),
     num_channels |-> UnpackH(wav, 23), sample_rate |-> UnpackI(wav, 25),
     byte_rate |-> UnpackI(wav, 29), block_align |-> UnpackH(wav, 33),
     bits_per_sample |-> UnpackH(wav, 35), data |-> SubSeq(wav, 37, 40),
     data_size |-> UnpackI(wav, 41)]


(***************************************************************************)
(* The engine as the service sees it                                       *)
(***************************************************************************)
\* the i-th normalized float sample of a buffer, in quarters: -0.75, then 1.0
Sample(i) == IF i % 2 = 1 THEN -3 ELSE 4

\* the buffers NeuTTS.infer may return
Audio == {[i \in 1..n |-> Sample(i)] : n \in 0..MaxSamples}

\* one call of NeuTTS.infer: it returns a buffer or raises
InferRuns == [ok : {TRUE}, audio : Audio] \cup {[ok |-> FALSE, audio |-> <<>>]}

\* the i-th chunk of an infer_stream run
Chunk(i) == IF i % 2 = 1 THEN <<4>> ELSE <<-3, 4>>

\* one run of NeuTTS.infer_stream: the chunks it produces, then how it ends
StreamRuns ==
    [chunks : {[i \in 1..k |-> Chunk(i)] : k \in 0..MaxChunks},
     end : {"done", "AttributeError", "RuntimeError"}]

NoInferRun == [ok |-> FALSE, audio |-> <<>>]

\* infer_stream was not entered
NoStreamRun == [chunks |-> <<>>, end |-> "none"]

(***************************************************************************)
(* TTSService.synthesize                                                   *)
(***************************************************************************)
Failed(st, reloads, infers, outcome) ==
    [st |-> st, reloads |-> reloads, infers |-> infers, outcome |-> outcome,
     codes |-> None, text |-> NoText, audio |-> <<>>, wav |-> <<>>,
     timing |-> [sample_rate |-> 0, samples |-> 0, covers |-> {}]]

\* synthesize from `if ref_codes is None` on; got is what get_voice_data returned
Infer(engine, got, run) ==
    IF got.ref_codes = None
    THEN Failed(got.st, got.reloads, 0, "ValueError")
    ELSE IF engine = 0
    THEN Failed(got.st, got.reloads, 0, "AttributeError")
    ELSE IF ~run.ok
    THEN Failed(got.st, got.reloads, 1, "EngineError")
    ELSE [st |-> got.st, reloads |-> got.reloads, infers |-> 1, outcome |-> "ok",
          codes |-> got.ref_codes, text |-> got.ref_text, audio |-> run.audio,
          wav |-> NumpyToWav(run.audio),
          \* duration_seconds is samples / sample_rate; covers is what ran
          \* between `start_time = time.time()` and the read for latency_ms
          timing |-> [sample_rate |-> SampleRate, samples |-> Len(run.audio),
                      covers |-> {"get_voice_data", "infer"}
                                 \cup (IF got.reloads = 0 THEN {}
                                       ELSE {"reload_custom_voices"})]]

Synthesize(engine, env, st, voice_id, run) ==
    Infer(engine, GetVoiceData(engine, env, st, voice_id), run)

(***************************************************************************)
(* TTSService.synthesize_streaming, consumed to its end                    *)
(***************************************************************************)
RECURSIVE ChunkBytes(_)
ChunkBytes(chunks) ==
    IF chunks = <<>> THEN <<>>
    ELSE <<ToBytes(Head(chunks))>> \o ChunkBytes(Tail(chunks))

\* the fallback yielding the quantized samples, as the streaming branch does
YieldPcm(s, reloads, yielded) ==
    [st |-> s.st, reloads |-> reloads + s.reloads, infers |-> s.infers,
     outcome |-> s.outcome, audio |-> s.audio,
     chunks |-> IF s.outcome = "ok" THEN Append(yielded, ToBytes(s.audio))
                ELSE yielded]

\* `wav, timing = self.synthesize(text, voice_id)` and `yield wav`, after
\* `yielded` went out; s is what synthesize returned or raised
YieldWav(s, reloads, yielded) ==
    [st |-> s.st, reloads |-> reloads + s.reloads, infers |-> s.infers,
     outcome |-> s.outcome, audio |-> s.audio,
     chunks |-> IF s.outcome = "ok" THEN Append(yielded, s.wav) ELSE yielded]

\* the except AttributeError branch
Fallback(engine, env, st, voice_id, run, reloads, yielded) ==
    YieldWav(Synthesize(engine, env, st, voice_id, run), reloads, yielded)

\* synthesize_streaming from `if ref_codes is None` on
Stream(engine, stream, env, voice_id, srun, run, got) ==
    IF got.ref_codes = None
    THEN [st |-> got.st, reloads |-> got.reloads, infers |-> 0,
          outcome |-> "ValueError", audio |-> <<>>, chunks |-> <<>>]
    ELSE IF engine = 0 \/ ~stream \/ srun.end = "AttributeError"
    THEN Fallback(engine, env, got.st, voice_id, run, got.reloads,
                  IF engine = 0 \/ ~stream THEN <<>> ELSE ChunkBytes(srun.chunks))
    ELSE [st |-> got.st, reloads |-> got.reloads, infers |-> 0,
          outcome |-> IF srun.end = "done" THEN "ok" ELSE "EngineError",
          audio |-> <<>>, chunks |-> ChunkBytes(srun.chunks)]

SynthesizeStreaming(engine, stream, env, st, voice_id, srun, run) ==
    Stream(engine, stream, env, voice_id, srun, run,
           GetVoiceData(engine, env, st, voice_id))

(***************************************************************************)
(* TTSService.initialize_tts, run to completion.                           *)
(* svc is [tts, st, engines, loads]                                        *)
(***************************************************************************)
IsInitialized(engine) == engine # 0

InitializeTts(svc, files, env) ==
    IF svc.tts # 0 THEN svc
    ELSE [tts |-> svc.engines + 1,
          engines |-> svc.engines + 1,
          loads |-> svc.loads + 1,
          st |-> ScanCustomVoices(svc.engines + 1, env,
                                  LoadBuiltinSamples(svc.engines + 1, files, svc.st))]

(***************************************************************************)
(* server.py: the handlers                                                 *)
(***************************************************************************)
\* voice_mapping.get(request.voice, request.voice)
VoiceMapping(voice) ==
    IF voice \in {"coral", "dave"} THEN "greta" ELSE voice

\* `if not tts_service.is_initialized(): tts_service.initialize_tts()`
EnsureInitialized(svc, files, env) ==
    IF IsInitialized(svc.tts) THEN svc ELSE InitializeTts(svc, files, env)

\* the response, with the service as the handler left it; s is what synthesize
\* returned or raised
Answer(svc, status, s) ==
    [svc |-> [svc EXCEPT !.st = s.st], status |-> status, reloads |-> s.reloads,
     infers |-> s.infers, outcome |-> s.outcome, codes |-> s.codes, text |-> s.text,
     audio |-> s.audio, wav |-> s.wav]

\* the try block of openai_speech: any exception becomes a 500
SpeechAnswer(svc, s) == Answer(svc, IF s.outcome = "ok" THEN 200 ELSE 500, s)

\* openai_speech after the initialization check
Speech(svc, env, voice_id, run) ==
    IF voice_id \notin DOMAIN svc.st.cache
    THEN Answer(svc, 404, Failed(svc.st, 0, 0, "HTTPException"))
    ELSE SpeechAnswer(svc, Synthesize(svc.tts, env, svc.st, voice_id, run))

OpenaiSpeech(svc, files, env, voice, run) ==
    Speech(EnsureInitialized(svc, files, env), env, VoiceMapping(voice), run)

\* synthesize_speech after the initialization check; the HTTPException(400) is
\* raised inside the try and caught by its `except Exception`
Extended(svc, env, ref_audio, run) ==
    IF ref_audio
    THEN Answer(svc, 500, Failed(svc.st, 0, 0, "HTTPException"))
    ELSE SpeechAnswer(svc, Synthesize(svc.tts, env, svc.st, "greta", run))

SynthesizeSpeech(svc, files, env, ref_audio, run) ==
    Extended(EnsureInitialized(svc, files, env), env, ref_audio, run)

\* format_map.get(request.response_format, "mp3"), behind the "pcm" branch
ExportFormat(response_format) ==
    IF response_format \in {"pcm", "mp3", "opus", "aac", "flac", "wav"}
    THEN response_format ELSE "mp3"

\* media_types.get(export_format, "audio/mpeg"), behind "audio/pcm"
MediaType(export_format) ==
    CASE export_format = "pcm" -> "audio/pcm"
      [] export_format = "opus" -> "audio/opus"
      [] export_format = "aac" -> "audio/aac"
      [] export_format = "flac" -> "audio/flac"
      [] export_format = "wav" -> "audio/wav"
      [] OTHER -> "audio/mpeg"

\* pydub on wav_data: "pcm" is the frames behind the 44-byte header, any other
\* format is that codec's encoding of them
Export(export_format, wav_data) ==
    IF export_format = "pcm" THEN SubSeq(wav_data, 45, Len(wav_data))
    ELSE <<export_format>> \o SubSeq(wav_data, 45, Len(wav_data))

(***************************************************************************)
(* Initial state: TTSService.__init__ and the files on disk                *)
(***************************************************************************)
Threads == 1..MaxThreads

\* op, voice, ref_audio: the call and its arguments; again: the same call was
\* made just before; hit, ready: the voice was registered and the engine
\* constructed when the call entered; reloads, infers: how often it rescanned
\* the directory and invoked NeuTTS.infer; outcome: "ok" or the exception;
\* status, media: the HTTP answer; codes, text: the reference it resolved;
\* audio: what NeuTTS.infer returned; stream: the infer_stream run the call
\* consumed; sample_rate: the rate _numpy_to_wav was given; covers: the calls
\* that latency_ms spans; chunks: the
\* payloads handed back; ids: the voice ids handed back
Idle == [op |-> "none", voice |-> "", ref_audio |-> FALSE, again |-> FALSE,
         hit |-> FALSE, ready |-> FALSE, reloads |-> 0, infers |-> 0,
         outcome |-> "none", status |-> 0, media |-> "", codes |-> None,
         text |-> NoText, audio |-> <<>>, stream |-> NoStreamRun,
         sample_rate |-> 0, covers |-> {},
         chunks |-> <<>>, ids |-> {}]

NoFrame == [i |-> 0, order |-> <<>>, stem |-> ""]

\* TTSService.__init__, before any file has been dropped into VOICES_DIR
Constructed ==
    /\ tts = 0
    /\ voice_cache = <<>>
    /\ inserted = [p \in Paths |-> 0]
    /\ engines = 0
    /\ loads = 0
    /\ resp = Idle
    /\ pc = [t \in Threads |-> "idle"]
    /\ frame = [t \in Threads |-> NoFrame]

Svc == [tts |-> tts, st |-> [cache |-> voice_cache, enc |-> inserted],
        engines |-> engines, loads |-> loads]

Env(order) == [dir |-> voicesDir, files |-> voices, order |-> order]

\* a call enters: what it was asked and what it found
Called(op, voice_id) ==
    [Idle EXCEPT !.op = op, !.voice = voice_id,
                 !.again = (resp.op = op /\ resp.voice = voice_id),
                 !.hit = voice_id \in DOMAIN voice_cache, !.ready = tts # 0]

\* a call leaves the service as svc and the caller with response
Finish(svc, response) ==
    /\ tts' = svc.tts
    /\ voice_cache' = svc.st.cache
    /\ inserted' = svc.st.enc
    /\ engines' = svc.engines
    /\ loads' = svc.loads
    /\ resp' = response
    /\ UNCHANGED <<samples, voices, voicesDir, hasStream, pc, frame>>

(***************************************************************************)
(* The files change under the running service                              *)
(***************************************************************************)
MakeVoicesDir ==
    /\ ~voicesDir
    /\ voicesDir' = TRUE
    /\ resp' = Idle
    /\ UNCHANGED <<tts, voice_cache, inserted, engines, loads, samples, voices,
                   hasStream, pc, frame>>

AddVoiceFile(stems, shapes) ==
    \E s \in stems, f \in shapes :
        /\ voicesDir
        /\ voices[s] = NoFile
        /\ voices' = [voices EXCEPT ![s] = f]
        /\ resp' = Idle
        /\ UNCHANGED <<tts, voice_cache, inserted, engines, loads, samples, voicesDir,
                       hasStream, pc, frame>>

RemoveVoiceFile(stems) ==
    \E s \in stems :
        /\ voices[s] # NoFile
        /\ voices' = [voices EXCEPT ![s] = NoFile]
        /\ resp' = Idle
        /\ UNCHANGED <<tts, voice_cache, inserted, engines, loads, samples, voicesDir,
                       hasStream, pc, frame>>

(***************************************************************************)
(* TTSService methods called directly, each run to completion              *)
(***************************************************************************)
InitializeTtsReturn(svc) ==
    Finish(svc, [Called("initialize_tts", "") EXCEPT
                     !.outcome = "ok", !.ids = DOMAIN svc.st.cache])

CallInitializeTts ==
    \E order \in GlobOrders(voices) :
        InitializeTtsReturn(InitializeTts(Svc, samples, Env(order)))

ReloadCustomVoicesReturn(r) ==
    Finish([Svc EXCEPT !.st = r.st],
           [Called("reload_custom_voices", "") EXCEPT
                !.reloads = 1, !.outcome = "ok", !.ids = r.ids])

CallReloadCustomVoices ==
    \E order \in GlobOrders(voices) :
        ReloadCustomVoicesReturn(ReloadCustomVoices(tts, Env(order), Svc.st))

CallGetAvailableVoices ==
    Finish(Svc, [Called("get_available_voices", "") EXCEPT
                     !.outcome = "ok",
                     !.ids = DOMAIN GetAvailableVoices(voice_cache)])

GetVoiceDataReturn(voice_id, r) ==
    Finish([Svc EXCEPT !.st = r.st],
           [Called("get_voice_data", voice_id) EXCEPT
                !.reloads = r.reloads, !.outcome = "ok",
                !.codes = r.ref_codes, !.text = r.ref_text])

CallGetVoiceData(ids) ==
    \E voice_id \in ids, order \in GlobOrders(voices) :
        GetVoiceDataReturn(voice_id, GetVoiceData(tts, Env(order), Svc.st, voice_id))

SynthesizeReturn(voice_id, r) ==
    Finish([Svc EXCEPT !.st = r.st],
           [Called("synthesize", voice_id) EXCEPT
                !.reloads = r.reloads, !.infers = r.infers, !.outcome = r.outcome,
                !.codes = r.codes, !.text = r.text, !.audio = r.audio,
                !.covers = r.timing.covers,
                !.chunks = IF r.outcome = "ok" THEN <<r.wav>> ELSE <<>>])

\* the engine runs a call can meet: infer is entered only with a resolved voice
SynthesizeInputs(voice_id, order) ==
    IF tts = 0 \/ GetVoiceData(tts, Env(order), Svc.st, voice_id).ref_codes = None
    THEN {NoInferRun} ELSE InferRuns

CallSynthesize(ids) ==
    \E voice_id \in ids, order \in GlobOrders(voices) :
      \E run \in SynthesizeInputs(voice_id, order) :
        SynthesizeReturn(voice_id, Synthesize(tts, Env(order), Svc.st, voice_id, run))

SynthesizeStreamingReturn(voice_id, srun, r) ==
    Finish([Svc EXCEPT !.st = r.st],
           [Called("synthesize_streaming", voice_id) EXCEPT
                !.reloads = r.reloads, !.infers = r.infers, !.outcome = r.outcome,
                !.audio = r.audio, !.stream = srun, !.chunks = r.chunks])

\* infer_stream is entered only when the attribute exists, infer only on the
\* fallback
StreamInputs(voice_id, order) ==
    IF hasStream /\ SynthesizeInputs(voice_id, order) # {NoInferRun}
    THEN StreamRuns ELSE {NoStreamRun}

FallbackInputs(voice_id, order, srun) ==
    IF hasStream /\ srun.end # "AttributeError" THEN {NoInferRun}
    ELSE SynthesizeInputs(voice_id, order)

CallSynthesizeStreaming(ids) ==
    \E voice_id \in ids, order \in GlobOrders(voices) :
      \E srun \in StreamInputs(voice_id, order) :
        \E run \in FallbackInputs(voice_id, order, srun) :
          SynthesizeStreamingReturn(voice_id, srun,
              SynthesizeStreaming(tts, hasStream, Env(order), Svc.st, voice_id,
                                  srun, run))

(***************************************************************************)
(* The handlers of server.py, each run to completion                       *)
(***************************************************************************)
StartupEvent ==
    \E order \in GlobOrders(voices) :
        Finish(InitializeTts(Svc, samples, Env(order)),
               [Called("startup_event", "") EXCEPT !.outcome = "ok"])

HealthCheck ==
    Finish(Svc, [Called("health_check", "") EXCEPT
                     !.outcome = "ok", !.status = 200,
                     !.ids = DOMAIN GetAvailableVoices(voice_cache)])

ListVoices ==
    Finish(Svc, [Called("list_voices", "") EXCEPT
                     !.outcome = "ok", !.status = 200,
                     !.ids = DOMAIN GetAvailableVoices(voice_cache)])

ReloadVoicesReturn(r) ==
    Finish([Svc EXCEPT !.st = r.st],
           [Called("reload_voices", "") EXCEPT
                !.reloads = 1, !.outcome = "ok", !.status = 200, !.ids = r.ids])

ReloadVoices ==
    \E order \in GlobOrders(voices) :
        ReloadVoicesReturn(ReloadCustomVoices(tts, Env(order), Svc.st))

\* a is the Answer of a synthesis handler; a 200 carries body as media
Respond(called, media, body, a) ==
    Finish(a.svc,
           [called EXCEPT
                !.status = a.status, !.reloads = a.reloads, !.infers = a.infers,
                !.outcome = a.outcome, !.codes = a.codes, !.text = a.text,
                !.audio = a.audio,
                !.media = IF a.status = 200 THEN media ELSE "",
                !.chunks = IF a.status = 200 THEN <<body>> ELSE <<>>])

SpeechRespond(voice, export_format, a) ==
    Respond(Called("openai_speech", voice), MediaType(export_format),
            Export(export_format, a.wav), a)

\* the JSON of /synthesize carries base64.b64encode(wav_data)
ExtendedRespond(ref_audio, a) ==
    Respond([Called("synthesize_speech", IF ref_audio THEN "custom" ELSE "greta")
                 EXCEPT !.ref_audio = ref_audio],
            "application/json", <<"base64">> \o a.wav, a)

\* infer is entered only when the handler gets as far as synthesize
SpeechInputs(voice, order) ==
    IF OpenaiSpeech(Svc, samples, Env(order), voice, NoInferRun).outcome = "EngineError"
    THEN InferRuns ELSE {NoInferRun}

PostSpeech(names, formats) ==
    \E voice \in names, response_format \in formats, order \in GlobOrders(voices) :
      \E run \in SpeechInputs(voice, order) :
        SpeechRespond(voice, ExportFormat(response_format),
                      OpenaiSpeech(Svc, samples, Env(order), voice, run))

ExtendedInputs(ref_audio, order) ==
    IF SynthesizeSpeech(Svc, samples, Env(order), ref_audio, NoInferRun).outcome
           = "EngineError"
    THEN InferRuns ELSE {NoInferRun}

PostSynthesize ==
    \E ref_audio \in BOOLEAN, order \in GlobOrders(voices) :
      \E run \in ExtendedInputs(ref_audio, order) :
        ExtendedRespond(ref_audio,
                        SynthesizeSpeech(Svc, samples, Env(order), ref_audio, run))

(***************************************************************************)
(* The service as a library: every method, a small directory               *)
(***************************************************************************)
CoreStems == {"anna"}

CoreShapes == {WavOnly, Corrupt}

\* a built-in, a custom voice, and a name no file ever carries
CoreVoices == {"greta", "anna", "nobody"}

Init ==
    /\ Constructed
    /\ samples \in {f \in [Builtins -> {WavTxt, NoFile}] :
                        f["mateo"] = WavTxt /\ f["juliette"] = WavTxt}
    /\ voicesDir \in BOOLEAN
    /\ voices = [s \in CustomStems |-> NoFile]
    /\ hasStream \in BOOLEAN

Next ==
    \/ MakeVoicesDir
    \/ AddVoiceFile(CoreStems, CoreShapes)
    \/ RemoveVoiceFile(CoreStems)
    \/ CallInitializeTts
    \/ CallReloadCustomVoices
    \/ CallGetAvailableVoices
    \/ CallGetVoiceData(CoreVoices)
    \/ CallSynthesize(CoreVoices)
    \/ CallSynthesizeStreaming(CoreVoices)

Spec == Init /\ [][Next]_vars

(***************************************************************************)
(* The registry alone: every shape of file, in both directories            *)
(***************************************************************************)
RegistryStems == {"greta", "anna"}

RegistryShapes == {WavTxt, Corrupt, BadTxt}

RegistryVoices == {"greta", "anna"}

InitRegistry ==
    /\ Constructed
    /\ samples \in [Builtins -> {WavTxt, NoFile, Corrupt, BadTxt}]
    /\ voicesDir \in BOOLEAN
    /\ voices = [s \in CustomStems |-> NoFile]
    /\ hasStream = FALSE

NextRegistry ==
    \/ MakeVoicesDir
    \/ AddVoiceFile(RegistryStems, RegistryShapes)
    \/ RemoveVoiceFile(RegistryStems)
    \/ CallInitializeTts
    \/ CallReloadCustomVoices
    \/ CallGetAvailableVoices
    \/ CallGetVoiceData(RegistryVoices)

SpecRegistry == InitRegistry /\ [][NextRegistry]_vars

(***************************************************************************)
(* The server: every endpoint, and synthesize called beside them           *)
(***************************************************************************)
ServerStems == {"anna", "coral"}

ServerShapes == {WavTxt, Corrupt}

\* a built-in, a custom voice, an alias of greta
ServerNames == {"greta", "anna", "coral"}

ServerFormats == {"mp3", "pcm"}

InitServer ==
    /\ Constructed
    /\ samples \in {f \in [Builtins -> {WavTxt, NoFile}] :
                        f["mateo"] = WavTxt /\ f["juliette"] = WavTxt}
    /\ voicesDir = TRUE
    /\ voices = [s \in CustomStems |-> NoFile]
    /\ hasStream = FALSE

NextServer ==
    \/ AddVoiceFile(ServerStems, ServerShapes)
    \/ StartupEvent
    \/ HealthCheck
    \/ ListVoices
    \/ ReloadVoices
    \/ PostSpeech(ServerNames, ServerFormats)
    \/ PostSynthesize
    \/ CallSynthesize(ServerNames)

SpecServer == InitServer /\ [][NextServer]_vars

(***************************************************************************)
(* The built-in load alone: every combination of .wav, .txt and .pt        *)
(***************************************************************************)
SampleShapes == {NoFile, WavOnly, WavTxt, WavPt, WavTxtPt}

InitSamples ==
    /\ Constructed
    /\ samples \in [Builtins -> SampleShapes]
    /\ voicesDir = FALSE
    /\ voices = [s \in CustomStems |-> NoFile]
    /\ hasStream = FALSE

NextSamples ==
    \/ CallInitializeTts
    \/ CallGetAvailableVoices
    \/ CallGetVoiceData(Builtins)

SpecSamples == InitSamples /\ [][NextSamples]_vars

(***************************************************************************)
(* The WAV encoder alone, on every buffer and rate                         *)
(***************************************************************************)
\* normalized float samples, in quarters: -1.0, -0.75, 0, 0.25, 1.0
WavSamples == {-4, -3, 0, 1, 4}

RECURSIVE Buffers(_)
Buffers(n) ==
    IF n = 0 THEN {<<>>}
    ELSE Buffers(n - 1)
         \cup {Append(b, x) : b \in {c \in Buffers(n - 1) : Len(c) = n - 1},
                              x \in WavSamples}

SampleRates == {8000, 24000, 44100, 48000}

CallNumpyToWav ==
    \E audio \in Buffers(MaxSamples), sample_rate \in SampleRates :
        Finish(Svc, [Called("_numpy_to_wav", "") EXCEPT
                         !.outcome = "ok", !.audio = audio,
                         !.sample_rate = sample_rate,
                         !.chunks = <<NumpyToWavAt(audio, sample_rate)>>])

InitWav ==
    /\ Constructed
    /\ samples = [b \in Builtins |-> WavTxt]
    /\ voicesDir = FALSE
    /\ voices = [s \in CustomStems |-> NoFile]
    /\ hasStream = FALSE

NextWav == CallNumpyToWav

SpecWav == InitWav /\ [][NextWav]_vars

(***************************************************************************)
(* initialize_tts entered by several threads, one statement per step       *)
(***************************************************************************)
Others == <<samples, voices, voicesDir, hasStream, resp>>

Goto(t, label) == pc' = [pc EXCEPT ![t] = label]

\* line 27: `if self.tts is None`
InitCheck(t) ==
    /\ pc[t] = "idle"
    /\ Goto(t, IF tts = 0 THEN "construct" ELSE "done")
    /\ UNCHANGED <<tts, voice_cache, inserted, engines, loads, frame>>
    /\ UNCHANGED Others

\* lines 32-37: `self.tts = NeuTTS(...)`
InitConstruct(t) ==
    /\ pc[t] = "construct"
    /\ engines' = engines + 1
    /\ tts' = engines + 1
    /\ Goto(t, "load")
    /\ UNCHANGED <<voice_cache, inserted, loads, frame>>
    /\ UNCHANGED Others

\* line 42: `self._load_builtin_samples()` is entered
InitLoad(t) ==
    /\ pc[t] = "load"
    /\ loads' = loads + 1
    /\ frame' = [frame EXCEPT ![t] = [NoFrame EXCEPT !.i = 1]]
    /\ Goto(t, "builtin")
    /\ UNCHANGED <<tts, voice_cache, inserted, engines>>
    /\ UNCHANGED Others

Store(st) ==
    /\ voice_cache' = st.cache
    /\ inserted' = st.enc

\* lines 57-84: one iteration of the loop over builtin_voices
InitBuiltin(t) ==
    /\ pc[t] = "builtin"
    /\ Store(LoadBuiltinOne(tts, samples, Svc.st, BuiltinVoices[frame[t].i]))
    /\ frame' = [frame EXCEPT ![t].i = @ + 1]
    /\ Goto(t, IF frame[t].i = Len(BuiltinVoices) THEN "glob" ELSE "builtin")
    /\ UNCHANGED <<tts, engines, loads>>
    /\ UNCHANGED Others

\* lines 88-93: the directory test and the glob
InitGlob(t) ==
    /\ pc[t] = "glob"
    /\ \E order \in GlobOrders(voices) :
          frame' = [frame EXCEPT ![t] = [NoFrame EXCEPT !.i = 1, !.order = order]]
    /\ Goto(t, IF voicesDir THEN "scan" ELSE "done")
    /\ UNCHANGED <<tts, voice_cache, inserted, engines, loads>>
    /\ UNCHANGED Others

\* lines 95-100: the next file, and `if voice_id in self.voice_cache: continue`
InitScan(t) ==
    /\ pc[t] = "scan"
    /\ IF frame[t].i > Len(frame[t].order)
       THEN /\ Goto(t, "done")
            /\ frame' = [frame EXCEPT ![t] = NoFrame]
       ELSE IF AlreadyLoaded(voice_cache, frame[t].order[frame[t].i])
       THEN /\ Goto(t, "scan")
            /\ frame' = [frame EXCEPT ![t].i = @ + 1]
       ELSE /\ Goto(t, "encode")
            /\ frame' = [frame EXCEPT ![t].stem = frame[t].order[frame[t].i]]
    /\ UNCHANGED <<tts, voice_cache, inserted, engines, loads>>
    /\ UNCHANGED Others

\* lines 102-119: the try block
InitEncode(t) ==
    /\ pc[t] = "encode"
    /\ Store(ScanLoad(tts, voices, Svc.st, frame[t].stem))
    /\ frame' = [frame EXCEPT ![t].i = @ + 1, ![t].stem = ""]
    /\ Goto(t, "scan")
    /\ UNCHANGED <<tts, engines, loads>>
    /\ UNCHANGED Others

InitThreads ==
    /\ Constructed
    /\ samples \in {f \in [Builtins -> {WavTxt, NoFile}] :
                        f["mateo"] = WavTxt /\ f["juliette"] = WavTxt}
    /\ voicesDir \in BOOLEAN
    /\ voices \in {f \in [CustomStems -> {NoFile, WavTxt}] :
                       /\ f["greta"] = NoFile /\ f["coral"] = NoFile
                       /\ f["anna"] = WavTxt => voicesDir}
    /\ hasStream = FALSE

NextThreads ==
    \E t \in Threads :
        \/ InitCheck(t)
        \/ InitConstruct(t)
        \/ InitLoad(t)
        \/ InitBuiltin(t)
        \/ InitGlob(t)
        \/ InitScan(t)
        \/ InitEncode(t)

SpecThreads == InitThreads /\ [][NextThreads]_vars

(***************************************************************************)
(* reload_custom_voices and get_voice_data entered by several threads of a *)
(* service that is up, one statement of _scan_custom_voices per step.      *)
(* A lookup that misses is a reload followed by a lookup on the same       *)
(* thread.                                                                 *)
(***************************************************************************)
\* the service once initialize_tts has run over the shipped samples and an
\* empty custom directory
Started ==
    InitializeTts([tts |-> 0, st |-> [cache |-> <<>>, enc |-> [p \in Paths |-> 0]],
                   engines |-> 0, loads |-> 0],
                  [b \in Builtins |-> WavTxt],
                  [dir |-> TRUE, files |-> [s \in CustomStems |-> NoFile],
                   order |-> <<>>])

\* line 123: `self._scan_custom_voices()` is entered
ReloadEnter(t) ==
    /\ pc[t] = "idle"
    /\ Goto(t, "glob")
    /\ UNCHANGED <<tts, voice_cache, inserted, engines, loads, frame>>
    /\ UNCHANGED Others

\* line 124: `return list(self.voice_cache.keys())`
ReloadReturn(t) ==
    /\ pc[t] = "done"
    /\ Goto(t, "idle")
    /\ resp' = [Called("reload_custom_voices", "") EXCEPT
                    !.reloads = 1, !.outcome = "ok", !.ids = DOMAIN voice_cache]
    /\ UNCHANGED <<tts, voice_cache, inserted, engines, loads, frame>>
    /\ UNCHANGED <<samples, voices, voicesDir, hasStream>>

\* lines 139-147 for an id that is in the cache
LookupHit(t) ==
    \E voice_id \in DOMAIN voice_cache \cap CustomStems :
        /\ pc[t] = "idle"
        /\ resp' = [Called("get_voice_data", voice_id) EXCEPT
                        !.outcome = "ok",
                        !.codes = VoiceData(Svc.st, 0, voice_id).ref_codes,
                        !.text = VoiceData(Svc.st, 0, voice_id).ref_text]
        /\ UNCHANGED <<tts, voice_cache, inserted, engines, loads, pc, frame>>
        /\ UNCHANGED <<samples, voices, voicesDir, hasStream>>

InitReloads ==
    /\ tts = Started.tts
    /\ voice_cache = Started.st.cache
    /\ inserted = Started.st.enc
    /\ engines = Started.engines
    /\ loads = Started.loads
    /\ resp = Idle
    /\ pc = [t \in Threads |-> "idle"]
    /\ frame = [t \in Threads |-> NoFrame]
    /\ samples = [b \in Builtins |-> WavTxt]
    /\ voicesDir = TRUE
    \* the files dropped into the directory since
    /\ voices \in {f \in [CustomStems -> {NoFile, WavTxt}] : f["greta"] = NoFile}
    /\ hasStream = FALSE

NextReloads ==
    \E t \in Threads :
        \/ ReloadEnter(t)
        \/ InitGlob(t)
        \/ InitScan(t)
        \/ InitEncode(t)
        \/ ReloadReturn(t)
        \/ LookupHit(t)

SpecReloads == InitReloads /\ [][NextReloads]_vars

(***************************************************************************)
(* Properties                                                              *)
(***************************************************************************)
Lookups == {"get_voice_data", "synthesize", "synthesize_streaming"}

\* a file that _load_builtin_samples or _scan_custom_voices can load
Loadable(f) == f.wav = "ok" /\ f.txt # "undecodable"

\* C1: concurrent first calls of initialize_tts construct the engine once, run
\* the built-in load pass once, and insert no voice twice.
C1_InitializedOnce ==
    /\ engines <= 1
    /\ loads <= 1
    /\ \A p \in Paths : inserted[p] <= 1

\* the engine raised during the call: NeuTTS.infer did, or the infer_stream
\* run ended in an exception
EngineFailed ==
    \/ (resp.infers = 1 /\ resp.outcome = "EngineError")
    \/ resp.stream.end \in {"AttributeError", "RuntimeError"}

\* the times the call entered the engine: infer_stream and infer
EngineCalls == resp.infers + (IF resp.stream = NoStreamRun THEN 0 ELSE 1)

\* C2: a lookup (get_voice_data, synthesize, synthesize_streaming) of an id
\* that is absent from the registry reloads the custom directory exactly once,
\* and fails with voice-not-found (None from get_voice_data, ValueError from
\* the synthesis calls) when the id is still absent afterwards; a lookup of an
\* id that is present reloads nothing.
C2_OneReloadPerMiss ==
    resp.op \in Lookups =>
        /\ resp.hit => resp.reloads = 0
        /\ ~resp.hit => resp.reloads = 1
        /\ (~resp.hit /\ resp.voice \notin DOMAIN voice_cache) =>
              /\ resp.codes = None
              /\ resp.op # "get_voice_data" => resp.outcome = "ValueError"

\* a streaming call that missed, reloaded once and found the freshly dropped file
C2_Witness ==
    /\ resp.op = "synthesize_streaming"
    /\ ~resp.hit
    /\ resp.reloads = 1
    /\ resp.voice \in DOMAIN voice_cache
    /\ resp.outcome = "ok"

\* C3: a valid voice file dropped into the custom directory after
\* initialization is resolved by the first synthesis request that names it,
\* through /v1/audio/speech as well as through synthesize.
C3_DroppedVoiceResolves ==
    (/\ resp.op \in {"openai_speech", "synthesize"}
     /\ resp.ready
     /\ ~resp.hit
     /\ VoiceMapping(resp.voice) = resp.voice
     /\ resp.voice \in WavFiles(voices)
     /\ Loadable(voices[resp.voice]))
    => /\ resp.voice \in DOMAIN voice_cache
       /\ resp.outcome \in {"ok", "EngineError"}

\* C4: once a built-in voice is in the registry with is_builtin = TRUE, no
\* step changes any field of its entry, whatever the custom directory holds
\* and in whatever order it is listed.
C4_BuiltinsKept ==
    [][\A v \in Builtins :
          (v \in DOMAIN voice_cache /\ voice_cache[v].is_builtin)
          => (v \in DOMAIN voice_cache' /\ voice_cache'[v] = voice_cache[v])]_vars

\* a reload has just met a loadable greta.wav in the custom directory while
\* the built-in greta is registered
C4_Witness ==
    /\ resp.op = "reload_custom_voices"
    /\ Loadable(voices["greta"])
    /\ "greta" \in DOMAIN voice_cache
    /\ voice_cache["greta"].is_builtin

\* C5: a reload_custom_voices() that follows another with no change to the
\* custom directory in between returns the same voice ids and leaves every
\* entry of the registry as it was, also with files that fail to load.
C5_ReloadIdempotent ==
    [][(/\ resp.op = "reload_custom_voices"
        /\ resp'.op = "reload_custom_voices"
        /\ resp'.again)
       => (voice_cache' = voice_cache /\ resp'.ids = resp.ids)]_vars

\* a second reload in a row, over a directory with an unreadable anna.wav and a
\* greta.wav that an earlier scan registered as a custom voice
C5_Witness ==
    /\ resp.op = "reload_custom_voices"
    /\ resp.again
    /\ tts # 0
    /\ voices["anna"] = Corrupt
    /\ "anna" \notin DOMAIN voice_cache
    /\ Loadable(voices["greta"])
    /\ "greta" \in DOMAIN voice_cache
    /\ ~voice_cache["greta"].is_builtin

\* C6: the registry only grows: no step removes an id or replaces its
\* reference code, and a lookup of a registered id returns the reference code
\* the registry already held for it.
C6_AppendOnly ==
    [][/\ \A v \in DOMAIN voice_cache :
            /\ v \in DOMAIN voice_cache'
            /\ voice_cache'[v].ref_codes = voice_cache[v].ref_codes
       /\ (/\ resp'.op \in {"get_voice_data", "synthesize"}
           /\ resp'.outcome = "ok"
           /\ resp'.voice \in DOMAIN voice_cache)
          => resp'.codes = voice_cache[resp'.voice].ref_codes]_vars

\* anna is looked up a second time, after its file was removed from the
\* directory
C6_Witness ==
    /\ resp.op = "get_voice_data"
    /\ resp.again
    /\ resp.hit
    /\ resp.voice = "anna"
    /\ voices["anna"] = NoFile
    /\ resp.codes = EncodedCodes(VoicePath("anna"), 1)

\* C7: synthesize and synthesize_streaming, called while the engine is not
\* constructed, fail with an engine-not-ready error of their own: neither
\* voice-not-found nor a crash on the missing engine.
C7_EngineNotReady ==
    (resp.op \in {"synthesize", "synthesize_streaming"} /\ ~resp.ready)
    => resp.outcome = "EngineNotReady"

\* C8: without infer_stream and with the voice registered,
\* synthesize_streaming invokes infer exactly once and yields exactly one
\* chunk, the WAV payload synthesize returns for that inference.
C8_FallbackYieldsWav ==
    (resp.op = "synthesize_streaming" /\ ~hasStream /\ resp.hit)
    => /\ resp.infers = 1
       /\ resp.outcome \in {"ok", "EngineError"}
       /\ resp.outcome = "EngineError" => resp.chunks = <<>>
       /\ resp.outcome = "ok" =>
            resp.chunks = <<Synthesize(tts, Env(<<>>), Svc.st, resp.voice,
                                       [ok |-> TRUE, audio |-> resp.audio]).wav>>

\* the fallback has yielded the WAV of a buffer of MaxSamples samples
C8_Witness ==
    /\ resp.op = "synthesize_streaming"
    /\ ~hasStream
    /\ resp.hit
    /\ resp.outcome = "ok"
    /\ Len(resp.audio) = MaxSamples
    /\ Len(resp.chunks) = 1
    /\ Len(resp.chunks[1]) = 44 + 2 * MaxSamples

\* C9: a voice whose audio or transcript fails to load gets no entry, the
\* failure stays inside initialize_tts and reload_custom_voices, and every
\* loadable voice of the same pass is inserted; so every entry that appears
\* carries the reference code of a file that loaded.
C9_FailuresIsolated ==
    [][/\ \A v \in VoiceIds :
            (/\ v \in DOMAIN voice_cache'
             /\ (v \in DOMAIN voice_cache => voice_cache'[v] # voice_cache[v]))
            => /\ voice_cache'[v].ref_codes # None
               /\ voice_cache'[v].ref_codes.path = voice_cache'[v].wav_path
               /\ IF voice_cache'[v].is_builtin
                  THEN v \in Builtins /\ Loadable(samples[v])
                  ELSE v \in CustomStems /\ voicesDir /\ Loadable(voices[v])
       /\ (tts = 0 /\ tts' # 0) =>
            \A b \in Builtins :
                Loadable(samples[b])
                => (b \in DOMAIN voice_cache' /\ voice_cache'[b].is_builtin)
       /\ (tts' # 0 /\ (tts = 0 \/ resp'.reloads = 1)) =>
            \A s \in CustomStems :
                (voicesDir /\ Loadable(voices[s])) => s \in DOMAIN voice_cache'
       /\ resp'.op \in {"initialize_tts", "reload_custom_voices"}
          => resp'.outcome = "ok"]_vars

\* initialize_tts has met an unreadable greta.wav and an undecodable mateo.txt
\* among the samples and an unreadable anna.wav in the custom directory, and
\* has registered juliette and the custom greta
C9_Witness ==
    /\ resp.op = "initialize_tts"
    /\ ~resp.ready
    /\ samples["greta"] = Corrupt
    /\ samples["mateo"] = BadTxt
    /\ voices["anna"] = Corrupt
    /\ voices["greta"] = WavTxt
    /\ DOMAIN voice_cache = {"juliette", "greta"}
    /\ ~voice_cache["greta"].is_builtin

\* C10: a synthesis request whose voice is not in the registry when the
\* handler is done with it is answered with a 4xx status, at /v1/audio/speech
\* and at /synthesize.
C10_UnresolvedIsClientError ==
    (/\ resp.op \in {"openai_speech", "synthesize_speech"}
     /\ ~resp.ref_audio
     /\ VoiceMapping(resp.voice) \notin DOMAIN voice_cache)
    => resp.status \in 400..499

\* C11: a synthesize or synthesize_streaming call in which the engine raised
\* ends in that error, has entered the engine once only, and has handed no
\* audio bytes to its caller, also when the error came after streamed chunks.
C11_FailureMeansNoAudio ==
    (resp.op \in {"synthesize", "synthesize_streaming"} /\ EngineFailed)
    => /\ resp.outcome = "EngineError"
       /\ EngineCalls = 1
       /\ resp.chunks = <<>>

\* C12: for a buffer of N samples and a sample rate, _numpy_to_wav returns
\* 44 + 2N bytes whose header reads back as RIFF size 36 + 2N, PCM format 1,
\* one channel, the given rate, byte rate 2 * rate, block align 2, 16 bits
\* per sample and data size 2N; for N = 0 that is the bare 44-byte header.
C12_WavLayout ==
    resp.op = "_numpy_to_wav" =>
        LET wav == resp.chunks[1]
            N == Len(resp.audio)
            h == ParseWavHeader(wav)
        IN  /\ Len(wav) = 44 + 2 * N
            /\ h.riff = <<82, 73, 70, 70>> /\ h.wave = <<87, 65, 86, 69>>
            /\ h.fmt = <<102, 109, 116, 32>> /\ h.data = <<100, 97, 116, 97>>
            /\ h.riff_size = 36 + 2 * N
            /\ h.data_size = 2 * N
            /\ h.fmt_size = 16
            /\ h.audio_format = 1
            /\ h.num_channels = 1
            /\ h.sample_rate = resp.sample_rate
            /\ h.byte_rate = resp.sample_rate * 2
            /\ h.block_align = 2
            /\ h.bits_per_sample = 16
            /\ (N = 0 /\ resp.sample_rate = 24000) =>
                  wav = <<82, 73, 70, 70, 36, 0, 0, 0, 87, 65, 86, 69,
                          102, 109, 116, 32, 16, 0, 0, 0, 1, 0, 1, 0,
                          192, 93, 0, 0, 128, 187, 0, 0, 2, 0, 16, 0,
                          100, 97, 116, 97, 0, 0, 0, 0>>

\* a buffer of MaxSamples samples has been encoded at 44100 Hz
C12_Witness ==
    /\ resp.op = "_numpy_to_wav"
    /\ Len(resp.audio) = MaxSamples
    /\ resp.sample_rate = 44100
    /\ Len(resp.chunks[1]) = 44 + 2 * MaxSamples

\* C13: however reload_custom_voices calls and lookups of several threads
\* interleave, no custom voice file is encoded and inserted more than once,
\* and the reference code a lookup returned for an id is still the one the
\* registry holds for it.
C13_InsertedOnce ==
    /\ \A s \in CustomStems : inserted[VoicePath(s)] <= 1
    /\ resp.op = "get_voice_data" =>
          voice_cache[resp.voice].ref_codes = resp.codes

\* C14: whenever is_initialized() is true, the built-in load pass and the
\* first scan of the custom directory are complete: every loadable built-in
\* and every loadable custom file is registered.
C14_ReadyMeansLoaded ==
    IsInitialized(tts) =>
        /\ \A b \in Builtins : Loadable(samples[b]) => b \in DOMAIN voice_cache
        /\ \A s \in CustomStems :
              (voicesDir /\ Loadable(voices[s])) => s \in DOMAIN voice_cache

\* C15: when infer_stream exists but raises on being invoked, before any
\* chunk, synthesize_streaming behaves as if it were absent, whatever the
\* exception: one infer call, and its WAV as the single chunk.
C15_StreamFailureFallsBack ==
    (/\ resp.op = "synthesize_streaming"
     /\ resp.stream.end \in {"AttributeError", "RuntimeError"}
     /\ resp.stream.chunks = <<>>)
    => /\ resp.infers = 1
       /\ resp.outcome \in {"ok", "EngineError"}
       /\ resp.outcome = "ok" => resp.chunks = <<NumpyToWav(resp.audio)>>

\* C16: when infer_stream ran and produced k chunks, synthesize_streaming
\* yields those k chunks in order and nothing else; the one-shot WAV follows
\* only when no chunk was yielded.
C16_OneYieldPerChunk ==
    (/\ resp.op = "synthesize_streaming"
     /\ resp.stream # NoStreamRun
     /\ (resp.stream.end = "done" \/ resp.stream.chunks # <<>>))
    => resp.chunks = ChunkBytes(resp.stream.chunks)

\* C17: after the built-in load, every built-in whose .wav exists and encodes
\* is registered with the transcript as reference text if the .txt exists and
\* the empty text otherwise, and with the deserialized .pt as reference code
\* whenever the .pt exists, with or without a .txt, and the wav encoding
\* otherwise.
C17_SerializedCodePreferred ==
    IsInitialized(tts) =>
        \A b \in Builtins :
            samples[b].wav = "ok" =>
                /\ b \in DOMAIN voice_cache
                /\ voice_cache[b].ref_text =
                      (IF samples[b].txt = "text" THEN Transcript(SamplePath(b))
                       ELSE <<>>)
                /\ voice_cache[b].ref_codes =
                      (IF samples[b].pt = "ok" THEN LoadedCodes(SamplePath(b))
                       ELSE EncodedCodes(SamplePath(b), 1))

\* C18: the latency_ms that synthesize reports spans the inference call
\* only: neither the voice lookup nor a reload that the lookup triggered.
C18_LatencyIsInference ==
    (resp.op = "synthesize" /\ resp.outcome = "ok") => resp.covers = {"infer"}

\* C19: a /v1/audio/speech request that names an id of the registry is
\* synthesized with that id's own reference code and reference text, custom
\* voices called coral or dave included.
C19_NamedVoiceIsUsed ==
    (resp.op = "openai_speech" /\ resp.ready /\ resp.hit)
    => /\ resp.status # 404
       /\ resp.outcome = "ok" =>
            /\ resp.codes = voice_cache[resp.voice].ref_codes
            /\ resp.text = voice_cache[resp.voice].ref_text

\* C20: a /synthesize request that carries ref_audio is answered 400, with
\* no inference run for it.
C20_RefAudioIsRejected ==
    (resp.op = "synthesize_speech" /\ resp.ref_audio)
    => (resp.status = 400 /\ resp.infers = 0)

====
